---- MODULE Spec2Model ----
(***************************************************************************)
(* A model of lrclib-go (src/lrclib_go.go): the proof-of-work solver       *)
(* (verifyNonce, solveChallenge, NewPublishToken, PublishSong) and the     *)
(* synced-lyrics codec (ParseSyncedLyrics, FormatSyncedLyrics).            *)
(*                                                                         *)
(* Go strings and byte slices are sequences: a string is a sequence of     *)
(* one-character strings, a []byte a sequence of numbers 0..255.           *)
(***************************************************************************)
EXTENDS Integers, Sequences, FiniteSets, TLC

VARIABLES
    \* verifyNonce called on its own
    vnResult, vnTarget, vnRet, vnPc,
    \* solveChallenge
    prefix, targetHex, target, decodeErr, nonce, input, hashed, tried, solved, pcS,
    \* PublishSong and NewPublishToken
    pcP, call, token, ret, log, solvedFor,
    \* ParseSyncedLyrics
    str, lines, syncedLyrics, index, pcParse,
    \* FormatSyncedLyrics
    lyrics, fmtIndex, fmtStr, pcFormat

varsVerify == <<vnResult, vnTarget, vnRet, vnPc>>
varsSolve == <<prefix, targetHex, target, decodeErr, nonce, input, hashed, tried, solved, pcS>>
varsPublish == <<pcP, call, token, ret, log, solvedFor>>
varsParse == <<str, lines, syncedLyrics, index, pcParse>>
varsFormat == <<lyrics, fmtIndex, fmtStr, pcFormat>>
varsCodec == <<varsParse, varsFormat>>
vars == <<varsVerify, varsSolve, varsPublish, varsCodec>>

(***************************************************************************)
(* Bounds.                                                                 *)
(***************************************************************************)
\* longest byte sequences handed to verifyNonce on its own
MaxLen == 2
\* width of a digest in bytes (sha256.Sum256 gives 32; the model scales it)
DigestLen == 2
\* the search of solveChallenge is followed up to this nonce
MaxNonce == 3
\* calls of PublishSong in one run
MaxCalls == 2
\* lines of a text handed to ParseSyncedLyrics, entries handed to
\* FormatSyncedLyrics
MaxLines == 2

\* byte values of the sequences compared by verifyNonce
ByteVals == {0, 1, 255}
\* characters of a challenge's target string: two hex digits and a non-digit
HexChars == {"0", "f", "g"}
\* byte values of a digest
DigestBytes == {0, 15, 255}
\* prefixes of a challenge
Prefixes == {<<>>, <<"a", "1">>}

SeqsUpTo(S, n) == UNION {[1..k -> S] : k \in 0..n}

(***************************************************************************)
(* Strings.                                                                *)
(***************************************************************************)
Digits == <<"0", "1", "2", "3", "4", "5", "6", "7", "8", "9">>

RECURSIVE ItoaNat(_)
ItoaNat(n) == IF n < 10 THEN <<Digits[n + 1]>>
              ELSE ItoaNat(n \div 10) \o <<Digits[(n % 10) + 1]>>

\* strconv.Itoa
Itoa(n) == IF n < 0 THEN <<"-">> \o ItoaNat(-n) ELSE ItoaNat(n)

(***************************************************************************)
(* encoding/hex: DecodeString returns the bytes decoded before the error.  *)
(***************************************************************************)
HexDigits == <<"0", "1", "2", "3", "4", "5", "6", "7", "8", "9",
               "a", "b", "c", "d", "e", "f">>
HexUpper == <<"A", "B", "C", "D", "E", "F">>

\* reverseHexTable: 255 for a character that is no hex digit
HexVal(c) == IF \E i \in 1..16 : HexDigits[i] = c
             THEN (CHOOSE i \in 1..16 : HexDigits[i] = c) - 1
             ELSE IF \E i \in 1..6 : HexUpper[i] = c
             THEN (CHOOSE i \in 1..6 : HexUpper[i] = c) + 9
             ELSE 255

\* hex.Decode: j is Go's j - 1, so that src[j], src[j+1] are the pair p, q
RECURSIVE HexDecode(_, _, _)
HexDecode(src, j, dst) ==
    IF j < Len(src)
    THEN LET a == HexVal(src[j])
             b == HexVal(src[j + 1])
         IN  IF a > 15 \/ b > 15
             THEN [bytes |-> dst, err |-> "InvalidByteError"]
             ELSE HexDecode(src, j + 2, Append(dst, a * 16 + b))
    ELSE IF Len(src) % 2 = 1
    THEN IF HexVal(src[j]) > 15
         THEN [bytes |-> dst, err |-> "InvalidByteError"]
         ELSE [bytes |-> dst, err |-> "ErrLength"]
    ELSE [bytes |-> dst, err |-> "nil"]

DecodeString(s) == HexDecode(s, 1, <<>>)

(***************************************************************************)
(* verifyNonce                                                             *)
(***************************************************************************)
\* the loop of verifyNonce from position i (1-based) on
RECURSIVE verifyLoop(_, _, _)
verifyLoop(result, tgt, i) ==
    IF i > Len(result) THEN TRUE
    ELSE IF result[i] > tgt[i] THEN FALSE
    ELSE IF result[i] < tgt[i] THEN TRUE
    ELSE verifyLoop(result, tgt, i + 1)

\* a verifyNonce that goes on comparing after a smaller byte
RECURSIVE verifyLoopNoBreak(_, _, _)
verifyLoopNoBreak(result, tgt, i) ==
    IF i > Len(result) THEN TRUE
    ELSE IF result[i] > tgt[i] THEN FALSE
    ELSE verifyLoopNoBreak(result, tgt, i + 1)

verifyNonceNoBreak(result, tgt) ==
    IF Len(result) # Len(tgt) THEN FALSE ELSE verifyLoopNoBreak(result, tgt, 1)

\* a verifyNonce without the check of the lengths, comparing the bytes that
\* both sequences have
verifyNonceNoLenCheck(result, tgt) ==
    LET n == IF Len(result) < Len(tgt) THEN Len(result) ELSE Len(tgt)
    IN  verifyLoop(SubSeq(result, 1, n), SubSeq(tgt, 1, n), 1)

verifyNonce(result, tgt) ==
    IF Len(result) # Len(tgt) THEN FALSE ELSE verifyLoop(result, tgt, 1)

\* a byte sequence read as a big-endian unsigned integer
RECURSIVE BigEndian(_)
BigEndian(b) == IF b = <<>> THEN 0
                ELSE BigEndian(SubSeq(b, 1, Len(b) - 1)) * 256 + b[Len(b)]

(***************************************************************************)
(* solveChallenge                                                          *)
(***************************************************************************)
Digests == [1..DigestLen -> DigestBytes]
TargetHexes == SeqsUpTo(HexChars, 2 * DigestLen + 1)

SolveIdle ==
    /\ prefix = <<>> /\ targetHex = <<>> /\ target = <<>> /\ decodeErr = "nil"
    /\ nonce = 0 /\ input = <<>> /\ hashed = <<>> /\ tried = <<>>
    /\ solved = <<>> /\ pcS = "idle"

\* line 227-228: nonce := 0; target, _ := hex.DecodeString(targetHex)
SolveStart ==
    /\ pcS = "start"
    /\ nonce' = 0
    /\ target' = DecodeString(targetHex).bytes
    /\ decodeErr' = DecodeString(targetHex).err
    /\ pcS' = "loop"
    /\ UNCHANGED <<prefix, targetHex, input, hashed, tried, solved>>

\* a loop that counts the accepted nonce as well before it leaves
SolveTryCountsAccepted ==
    /\ pcS = "loop"
    /\ nonce <= MaxNonce
    /\ \E h \in Digests :
        /\ input' = prefix \o Itoa(nonce)
        /\ hashed' = h
        /\ tried' = Append(tried, [nonce |-> nonce, accept |-> verifyNonce(h, target)])
        /\ pcS' = IF verifyNonce(h, target) THEN "return" ELSE "loop"
        /\ nonce' = nonce + 1
    /\ UNCHANGED <<prefix, targetHex, target, decodeErr, solved>>

\* lines 231-238, one round of the loop.  sha256.Sum256 is a function of its
\* input, and the inputs of one search are pairwise different (Itoa is
\* injective), so each round meets a digest not determined by the earlier ones.
SolveTry ==
    /\ pcS = "loop"
    /\ nonce <= MaxNonce
    /\ \E h \in Digests :
        /\ input' = prefix \o Itoa(nonce)
        /\ hashed' = h
        /\ tried' = Append(tried, [nonce |-> nonce, accept |-> verifyNonce(h, target)])
        /\ IF verifyNonce(h, target)
           THEN /\ pcS' = "return"
                /\ nonce' = nonce
           ELSE /\ pcS' = "loop"
                /\ nonce' = nonce + 1
    /\ UNCHANGED <<prefix, targetHex, target, decodeErr, solved>>

\* line 241
SolveReturn ==
    /\ pcS = "return"
    /\ solved' = Itoa(nonce)
    /\ pcS' = "done"
    /\ UNCHANGED <<prefix, targetHex, target, decodeErr, nonce, input, hashed, tried>>

(***************************************************************************)
(* PublishSong and NewPublishToken.  log is the sequence of the requests   *)
(* sent to the service; solvedFor[c] records the nonce the search of call   *)
(* c returned and whether verifyNonce accepted its digest.                 *)
(***************************************************************************)
\* targets the service answers with: well-formed ones of the digest's length,
\* the empty one and one that is no hex string
PublishTargets ==
    {[i \in 1..(2 * DigestLen) |-> IF i = 1 THEN c ELSE "f"] : c \in {"0", "f"}}
        \cup {<<>>, <<"g">>}

\* line 207: fmt.Sprintf("{%s}:{%s}", response.Prefix, nonce)
Token(p, n) == <<"{">> \o p \o <<"}", ":", "{">> \o n \o <<"}">>

PublishIdle ==
    /\ pcP = "idle" /\ call = 0 /\ token = <<>> /\ ret = "none"
    /\ log = <<>> /\ solvedFor = <<>>

\* a PublishSong that keeps the token of an earlier call
PublishSongCached ==
    /\ pcP = "idle"
    /\ call < MaxCalls
    /\ call' = call + 1
    /\ ret' = "none"
    /\ solvedFor' = Append(solvedFor, [nonce |-> -1, accepted |-> FALSE])
    /\ pcP' = IF token # <<>> THEN "send" ELSE "challenge"
    /\ UNCHANGED <<token, log, varsSolve>>

\* lines 144-148: a call begins; json.Marshal(song) fails or not
PublishSong ==
    /\ pcP = "idle"
    /\ call < MaxCalls
    /\ call' = call + 1
    /\ token' = <<>>
    /\ solvedFor' = Append(solvedFor, [nonce |-> -1, accepted |-> FALSE])
    /\ \E marshalled \in BOOLEAN :
        IF marshalled
        THEN pcP' = "challenge" /\ ret' = "none"
        ELSE pcP' = "idle" /\ ret' = "marshal error"
    /\ UNCHANGED <<log, varsSolve>>

\* lines 186-203: the challenge is requested; the request fails (line 192),
\* its answer does not decode (line 201), or it gives a prefix and a target
RequestChallenge ==
    /\ pcP = "challenge"
    /\ \/ \E e \in {"transport error", "decode error"} :
            /\ log' = Append(log, [kind |-> "request-challenge", call |-> call,
                                   outcome |-> e, prefix |-> <<>>, target |-> <<>>])
            /\ ret' = e
            /\ pcP' = "idle"
            /\ UNCHANGED varsSolve
       \/ \E p \in Prefixes, t \in PublishTargets :
            /\ log' = Append(log, [kind |-> "request-challenge", call |-> call,
                                   outcome |-> "ok", prefix |-> p, target |-> t])
            /\ prefix' = p /\ targetHex' = t
            /\ target' = <<>> /\ decodeErr' = "nil"
            /\ nonce' = 0 /\ input' = <<>> /\ hashed' = <<>> /\ tried' = <<>>
            /\ solved' = <<>> /\ pcS' = "start"
            /\ pcP' = "solving"
            /\ UNCHANGED ret
    /\ UNCHANGED <<call, token, solvedFor>>

\* lines 205-207 and 150: solveChallenge has returned (its variables are gone
\* with it), the token is built
NewPublishToken ==
    /\ pcP = "solving"
    /\ pcS = "done"
    /\ token' = Token(prefix, solved)
    /\ solvedFor' = [solvedFor EXCEPT ![call] =
                        [nonce |-> nonce, accepted |-> verifyNonce(hashed, target)]]
    /\ prefix' = <<>> /\ targetHex' = <<>> /\ target' = <<>> /\ decodeErr' = "nil"
    /\ nonce' = 0 /\ input' = <<>> /\ hashed' = <<>> /\ tried' = <<>>
    /\ solved' = <<>> /\ pcS' = "idle"
    /\ pcP' = "send"
    /\ UNCHANGED <<call, ret, log>>

\* lines 155-172: the publish request is sent with the token in its header
PublishSend ==
    /\ pcP = "send"
    /\ log' = Append(log, [kind |-> "publish", call |-> call, token |-> token])
    /\ \E r \in {"transport error", "nil", "PublishError", "decode error"} : ret' = r
    /\ pcP' = "idle"
    /\ UNCHANGED <<call, token, solvedFor, varsSolve>>

(***************************************************************************)
(* float64 arithmetic, as far as the codec uses it.  A natural number is   *)
(* a sequence of bits, the lowest first, as long as needed; a float64 > 0  *)
(* is [m, e], the value m * 2^e with m of at most 53 bits; zero is         *)
(* [<<>>, 0].  Results are rounded to nearest, ties to even (IEEE 754).    *)
(***************************************************************************)
RECURSIVE BFromNat(_)
BFromNat(n) == IF n = 0 THEN <<>> ELSE <<n % 2>> \o BFromNat(n \div 2)

RECURSIVE BToNat(_)
BToNat(b) == IF b = <<>> THEN 0 ELSE b[1] + 2 * BToNat(Tail(b))

\* without the zero bits at the high end
RECURSIVE BNorm(_)
BNorm(b) == IF b # <<>> /\ b[Len(b)] = 0 THEN BNorm(SubSeq(b, 1, Len(b) - 1)) ELSE b

BBit(b, i) == IF i <= Len(b) THEN b[i] ELSE 0

\* the bits i..j of b that exist
BSlice(b, i, j) ==
    IF i > Len(b) THEN <<>> ELSE SubSeq(b, i, IF j > Len(b) THEN Len(b) ELSE j)

\* the sum of a, b and the carry c from position i on, 15 bits at a time
RECURSIVE BAddAt(_, _, _, _)
BAddAt(a, b, i, c) ==
    IF i > Len(a) /\ i > Len(b) THEN BFromNat(c)
    ELSE LET x == BToNat(BSlice(a, i, i + 14)) + BToNat(BSlice(b, i, i + 14)) + c
             low == BFromNat(x % 32768)
         IN  low \o [k \in 1..(15 - Len(low)) |-> 0] \o BAddAt(a, b, i + 15, x \div 32768)

BAdd(a, b) == BNorm(BAddAt(a, b, 1, 0))

BShl(a, n) == IF a = <<>> THEN <<>> ELSE [i \in 1..n |-> 0] \o a
BShr(a, n) == SubSeq(a, n + 1, Len(a))

\* a times the bits lo..hi of b (lo <= hi): the sum of the shifted copies of
\* a, halving the range
RECURSIVE BMulAt(_, _, _, _)
BMulAt(a, b, lo, hi) ==
    IF lo = hi THEN (IF b[lo] = 1 THEN BShl(a, lo - 1) ELSE <<>>)
    ELSE LET mid == (lo + hi) \div 2
         IN  BAdd(BMulAt(a, b, lo, mid), BMulAt(a, b, mid + 1, hi))

BMul(a, b) == IF b = <<>> THEN <<>> ELSE BMulAt(a, b, 1, Len(b))

\* long division by d (below 2^30), one bit at a time: bits i, i-1, ..., lo
\* of a after the remainder rem of the higher bits give these bits of the
\* quotient and a remainder
RECURSIVE BDivBits(_, _, _, _, _)
BDivBits(a, i, lo, rem, d) ==
    IF i < lo THEN [q |-> <<>>, r |-> rem]
    ELSE LET r2 == 2 * rem + a[i]
         IN  IF r2 >= d
             THEN LET rest == BDivBits(a, i - 1, lo, r2 - d, d)
                  IN  [q |-> Append(rest.q, 1), r |-> rest.r]
             ELSE LET rest == BDivBits(a, i - 1, lo, r2, d)
                  IN  [q |-> Append(rest.q, 0), r |-> rest.r]

\* the same for the bits i, ..., 1, in runs of 16 bits
RECURSIVE BDivAt(_, _, _, _)
BDivAt(a, i, rem, d) ==
    IF i = 0 THEN [q |-> <<>>, r |-> rem]
    ELSE LET lo == IF i > 16 THEN i - 15 ELSE 1
             run == BDivBits(a, i, lo, rem, d)
             rest == BDivAt(a, lo - 1, run.r, d)
         IN  [q |-> rest.q \o run.q, r |-> rest.r]

BDiv(a, d) == LET x == BDivAt(a, Len(a), 0, d) IN [q |-> BNorm(x.q), r |-> x.r]

\* m (normalised) with bits below it that are zero or not (sticky), rounded
\* to 53 bits: the value is m * 2^e
Round53(m, sticky) ==
    IF Len(m) <= 53 THEN [m |-> m, e |-> 0]
    ELSE LET k == Len(m) - 53
             top == SubSeq(m, k + 1, Len(m))
             st == sticky \/ \E i \in 1..(k - 1) : m[i] = 1
             up == m[k] = 1 /\ (st \/ top[1] = 1)
             r == IF up THEN BAdd(top, <<1>>) ELSE top
         IN  IF Len(r) = 54 THEN [m |-> BShr(r, 1), e |-> k + 1]
             ELSE [m |-> r, e |-> k]

FZero == [m |-> <<>>, e |-> 0]

\* float64(n) for a natural number n below 2^31
FFromNat(n) == [m |-> BFromNat(n), e |-> 0]

\* the float64 nearest to c / d, for c below 2^31 and d below 2^30
FQuot(c, d) ==
    IF c = 0 THEN FZero
    ELSE LET x == BDiv(BShl(BFromNat(c), 96), d)
             r == Round53(x.q, x.r # 0)
         IN  [m |-> r.m, e |-> r.e - 96]

\* x * y
FMul(x, y) ==
    IF x.m = <<>> \/ y.m = <<>> THEN FZero
    ELSE LET r == Round53(BNorm(BMul(x.m, y.m)), FALSE)
         IN  [m |-> r.m, e |-> r.e + x.e + y.e]

\* x + y
FAdd(x, y) ==
    IF x.m = <<>> THEN y
    ELSE IF y.m = <<>> THEN x
    ELSE LET e == IF x.e < y.e THEN x.e ELSE y.e
             r == Round53(BNorm(BAdd(BShl(x.m, x.e - e), BShl(y.m, y.e - e))), FALSE)
         IN  [m |-> r.m, e |-> r.e + e]

\* the integer part of x, as bits: what a conversion to int64 keeps
FTrunc(x) == IF x.e >= 0 THEN BShl(x.m, x.e) ELSE BShr(x.m, -x.e)

\* x * 100 rounded to the nearest integer, ties to even: the digits that
\* the verb %.2f prints
FHundredths(x) ==
    LET p == BMul(x.m, BFromNat(100))
    IN  IF x.e >= 0 THEN BToNat(BShl(p, x.e))
        ELSE LET k == -x.e
                 q == BShr(p, k)
                 st == \E i \in 1..(k - 1) : BBit(p, i) = 1
                 up == BBit(p, k) = 1 /\ (st \/ BBit(q, 1) = 1)
             IN  BToNat(IF up THEN BAdd(q, <<1>>) ELSE q)

(***************************************************************************)
(* time.Duration: a count of nanoseconds, kept as whole seconds and the    *)
(* nanoseconds below a second (sec * 10^9 + nsec with 0 <= nsec < 10^9).   *)
(***************************************************************************)
Dur(sec, nsec) == [sec |-> sec, nsec |-> nsec]

\* time.Duration(minutes) * time.Minute + d
DurAddMinutes(minutes, d) == Dur(d.sec + 60 * minutes, d.nsec)

\* time.Duration(f) for a float64 f >= 0: the fraction is cut off
DurFromFloat(f) ==
    LET x == BDiv(FTrunc(f), 1000000000) IN Dur(BToNat(x.q), x.r)

\* int(d.Minutes()) for d >= 0 below 2^17 minutes, where the float64 sum
\* of Minutes() has the whole minutes as its integer part
DurMinutes(d) == d.sec \div 60

\* d.Seconds() for d >= 0: float64(sec) + float64(nsec)/1e9
DurSeconds(d) == FAdd(FFromNat(d.sec), FQuot(d.nsec, 1000000000))

(***************************************************************************)
(* strings and strconv, on strings without sign, exponent, "inf", "nan",   *)
(* "0x" and "_": the texts of the model have none in a number's place.     *)
(***************************************************************************)
\* strings.Index(s, c) for a single character c
StrIndex(s, c) ==
    IF \E i \in 1..Len(s) : s[i] = c
    THEN (CHOOSE i \in 1..Len(s) : s[i] = c /\ \A k \in 1..(i - 1) : s[k] # c) - 1
    ELSE -1

\* strings.Split(s, sep) for a single character sep
RECURSIVE Split(_, _)
Split(s, sep) ==
    LET i == StrIndex(s, sep)
    IN  IF i = -1 THEN <<s>>
        ELSE <<SubSeq(s, 1, i)>> \o Split(SubSeq(s, i + 2, Len(s)), sep)

IsDigit(c) == \E i \in 1..10 : Digits[i] = c
DigitVal(c) == (CHOOSE i \in 1..10 : Digits[i] = c) - 1

RECURSIVE DigitsVal(_)
DigitsVal(s) == IF s = <<>> THEN 0
                ELSE DigitsVal(SubSeq(s, 1, Len(s) - 1)) * 10 + DigitVal(s[Len(s)])

RECURSIVE Pow10(_)
Pow10(k) == IF k = 0 THEN 1 ELSE 10 * Pow10(k - 1)

\* strconv.ParseInt(s, 10, 64)
ParseInt(s) ==
    IF s # <<>> /\ \A i \in 1..Len(s) : IsDigit(s[i])
    THEN [ok |-> TRUE, val |-> DigitsVal(s)]
    ELSE [ok |-> FALSE, val |-> 0]

\* strconv.ParseFloat(s, 64): digits with at most one point and at least one
\* digit give the nearest float64
ParseFloat(s) ==
    LET points == {i \in 1..Len(s) : s[i] = "."}
        digits == SelectSeq(s, IsDigit)
    IN  IF /\ \A i \in 1..Len(s) : IsDigit(s[i]) \/ s[i] = "."
           /\ Cardinality(points) <= 1
           /\ digits # <<>>
        THEN LET k == IF points = {} THEN 0 ELSE Len(s) - (CHOOSE i \in points : TRUE)
             IN  [ok |-> TRUE, val |-> FQuot(DigitsVal(digits), Pow10(k))]
        ELSE [ok |-> FALSE, val |-> FZero]

(***************************************************************************)
(* ParseSyncedLyrics                                                       *)
(***************************************************************************)
SyncedLyric(at, text, idx) == [At |-> at, Text |-> text, Index |-> idx]

\* the zero value of SyncedLyric
ZeroLyric == SyncedLyric(Dur(0, 0), <<>>, 0)

\* a loop body that writes an entry with the line's index for a line it
\* cannot parse
ParseEntryIndexed(line, idx) ==
    LET i == StrIndex(line, " ")
        stamp == SubSeq(line, 1, i)
        lyric == SubSeq(line, i + 1, Len(line))
        sep == Split(SubSeq(stamp, 2, Len(stamp) - 1), ":")
        minutes == ParseInt(sep[1])
        seconds == ParseFloat(sep[2])
        duration == DurAddMinutes(minutes.val,
                        DurFromFloat(FMul(seconds.val, FFromNat(1000000000))))
        failed == [act |-> "store", lyric |-> SyncedLyric(Dur(0, 0), <<>>, idx)]
    IN  IF i = -1 THEN failed
        ELSE IF 1 > Len(stamp) - 1 THEN [act |-> "panic", lyric |-> ZeroLyric]
        ELSE IF Len(sep) # 2 THEN failed
        ELSE IF ~minutes.ok THEN failed
        ELSE IF ~seconds.ok THEN failed
        ELSE [act |-> "store", lyric |-> SyncedLyric(duration, lyric, idx)]

\* lines 51-77, the body of the loop for one line: the slot is left alone
\* ("continue"), written ("store"), or the slice expression of line 58 is
\* out of range and the call panics
ParseEntry(line, idx) ==
    LET i == StrIndex(line, " ")
        stamp == SubSeq(line, 1, i)
        lyric == SubSeq(line, i + 1, Len(line))
        sep == Split(SubSeq(stamp, 2, Len(stamp) - 1), ":")
        minutes == ParseInt(sep[1])
        seconds == ParseFloat(sep[2])
        duration == DurAddMinutes(minutes.val,
                        DurFromFloat(FMul(seconds.val, FFromNat(1000000000))))
    IN  IF i = -1 THEN [act |-> "continue", lyric |-> ZeroLyric]
        ELSE IF 1 > Len(stamp) - 1 THEN [act |-> "panic", lyric |-> ZeroLyric]
        ELSE IF Len(sep) # 2 THEN [act |-> "continue", lyric |-> ZeroLyric]
        ELSE IF ~minutes.ok THEN [act |-> "continue", lyric |-> ZeroLyric]
        ELSE IF ~seconds.ok THEN [act |-> "continue", lyric |-> ZeroLyric]
        ELSE [act |-> "store", lyric |-> SyncedLyric(duration, lyric, idx)]

ParseIdle ==
    /\ str = <<>> /\ lines = <<>> /\ syncedLyrics = <<>> /\ index = 0
    /\ pcParse = "idle"

\* lines 48-49
ParseSplit ==
    /\ pcParse = "start"
    /\ lines' = Split(str, "\n")
    /\ syncedLyrics' = [k \in 1..Len(Split(str, "\n")) |-> ZeroLyric]
    /\ index' = 0
    /\ pcParse' = "loop"
    /\ UNCHANGED str

\* lines 50-78, one round of the loop
ParseLine ==
    /\ pcParse = "loop"
    /\ index < Len(lines)
    /\ LET r == ParseEntry(lines[index + 1], index)
       IN  /\ syncedLyrics' = IF r.act = "store"
                             THEN [syncedLyrics EXCEPT ![index + 1] = r.lyric]
                             ELSE syncedLyrics
           /\ pcParse' = IF r.act = "panic" THEN "panic" ELSE "loop"
           /\ index' = IF r.act = "panic" THEN index ELSE index + 1
    /\ UNCHANGED <<str, lines>>

\* line 79
ParseReturn ==
    /\ pcParse = "loop"
    /\ index = Len(lines)
    /\ pcParse' = "done"
    /\ UNCHANGED <<str, lines, syncedLyrics, index>>

(***************************************************************************)
(* FormatSyncedLyrics.  The source names its parameter lyrics and ranges   *)
(* over syncedLyrics, and reads the field Lyric of a SyncedLyric, which    *)
(* has the field Text: the model takes both pairs as the same thing.       *)
(***************************************************************************)
\* a string padded with zeros on the left to a width
RECURSIVE PadZero(_, _)
PadZero(s, width) == IF Len(s) >= width THEN s ELSE PadZero(<<"0">> \o s, width)

\* fmt's %02.2f: two digits after the point, the whole of it at least two
\* characters wide
Fmt02_2f(f) ==
    LET h == FHundredths(f)
    IN  PadZero(Itoa(h \div 100) \o <<".">> \o PadZero(Itoa(h % 100), 2), 2)

\* line 40-42: fmt.Sprintf("[%d:%02.2f] %s", minutes, seconds, lyric.Lyric)
FormatEntry(lyric) ==
    LET minutes == DurMinutes(lyric.At)
        seconds == DurSeconds(lyric.At)
    IN  <<"[">> \o Itoa(minutes) \o <<":">> \o Fmt02_2f(seconds) \o <<"]", " ">>
            \o lyric.Text

FormatIdle == lyrics = <<>> /\ fmtIndex = 0 /\ fmtStr = <<>> /\ pcFormat = "idle"

\* lines 35-43, one round of the loop
FormatLine ==
    /\ pcFormat = "loop"
    /\ fmtIndex < Len(lyrics)
    /\ LET newline == IF fmtIndex # Len(lyrics) - 1 THEN <<"\n">> ELSE <<>>
       IN  fmtStr' = fmtStr \o FormatEntry(lyrics[fmtIndex + 1]) \o newline
    /\ fmtIndex' = fmtIndex + 1
    /\ UNCHANGED <<lyrics, pcFormat>>

\* line 44
FormatReturn ==
    /\ pcFormat = "loop"
    /\ fmtIndex = Len(lyrics)
    /\ pcFormat' = "done"
    /\ UNCHANGED <<lyrics, fmtIndex, fmtStr>>

\* a caller formats what ParseSyncedLyrics returned: line 34
FormatParsed ==
    /\ pcParse = "done"
    /\ pcFormat = "idle"
    /\ lyrics' = syncedLyrics
    /\ fmtIndex' = 0
    /\ fmtStr' = <<>>
    /\ pcFormat' = "loop"

(***************************************************************************)
(* verifyNonce on its own: any two byte sequences.                         *)
(***************************************************************************)
VerifyIdle == vnResult = <<>> /\ vnTarget = <<>> /\ vnRet = FALSE /\ vnPc = "idle"

VerifyCall ==
    /\ vnPc = "called"
    /\ vnRet' = verifyNonce(vnResult, vnTarget)
    /\ vnPc' = "done"
    /\ UNCHANGED <<vnResult, vnTarget>>

InitVerify ==
    /\ vnResult \in SeqsUpTo(ByteVals, MaxLen)
    /\ vnTarget \in SeqsUpTo(ByteVals, MaxLen)
    /\ vnRet = FALSE
    /\ vnPc = "called"
    /\ SolveIdle
    /\ PublishIdle
    /\ ParseIdle /\ FormatIdle

NextVerify == VerifyCall /\ UNCHANGED <<varsSolve, varsPublish, varsCodec>>

SpecVerify == InitVerify /\ [][NextVerify]_vars

(***************************************************************************)
(* solveChallenge on any challenge.                                        *)
(***************************************************************************)
InitSolve ==
    /\ VerifyIdle
    /\ PublishIdle
    /\ ParseIdle /\ FormatIdle
    /\ prefix \in Prefixes
    /\ targetHex \in TargetHexes
    /\ target = <<>> /\ decodeErr = "nil"
    /\ nonce = 0 /\ input = <<>> /\ hashed = <<>> /\ tried = <<>>
    /\ solved = <<>> /\ pcS = "start"

NextSolve ==
    \/ SolveStart /\ UNCHANGED <<varsVerify, varsPublish, varsCodec>>
    \/ SolveTry /\ UNCHANGED <<varsVerify, varsPublish, varsCodec>>
    \/ SolveReturn /\ UNCHANGED <<varsVerify, varsPublish, varsCodec>>

SpecSolve == InitSolve /\ [][NextSolve]_vars

(***************************************************************************)
(* Calls of PublishSong, one after the other.  A later call that meets an  *)
(* input of an earlier search again is given any digest: a superset of     *)
(* what a fixed hash function allows.                                      *)
(***************************************************************************)
InitPublish == VerifyIdle /\ SolveIdle /\ PublishIdle /\ ParseIdle /\ FormatIdle

NextPublish ==
    \/ PublishSong /\ UNCHANGED <<varsVerify, varsCodec>>
    \/ RequestChallenge /\ UNCHANGED <<varsVerify, varsCodec>>
    \/ SolveStart /\ UNCHANGED <<varsVerify, varsPublish, varsCodec>>
    \/ SolveTry /\ UNCHANGED <<varsVerify, varsPublish, varsCodec>>
    \/ SolveReturn /\ UNCHANGED <<varsVerify, varsPublish, varsCodec>>
    \/ NewPublishToken /\ UNCHANGED <<varsVerify, varsCodec>>
    \/ PublishSend /\ UNCHANGED <<varsVerify, varsCodec>>

SpecPublish == InitPublish /\ [][NextPublish]_vars

(***************************************************************************)
(* The codec: ParseSyncedLyrics on a text, whose result a caller may hand  *)
(* to FormatSyncedLyrics, or FormatSyncedLyrics on entries of its own.     *)
(***************************************************************************)
\* lines "[M:SS.ff] text"
GoodLines == {
    <<"[", "0", ":", "0", "1", ".", "5", "0", "]", " ", "h", "e", "l", "l", "o">>,
    <<"[", "1", ":", "0", "5", ".", "2", "5", "]", " ", "l", "a", " ", "l", "a">>,
    <<"[", "0", ":", "1", "2", ".", "5", "0", "]", " ", "x">>,
    <<"[", "0", ":", "0", "2", ".", "0", "1", "]", " ", "x">> }

\* lines that do not parse: no space, three parts, minutes no integer,
\* seconds no number, an empty stamp, an empty line
BadLines == {
    <<"n", "o", "s", "p", "a", "c", "e", "h", "e", "r", "e">>,
    <<"[", "1", ":", "2", ":", "3", "]", " ", "x">>,
    <<"[", "a", ":", "1", "]", " ", "x">>,
    <<"[", "1", ":", "b", "]", " ", "x">>,
    <<"[", "]", " ", "x">>,
    <<>> }

\* lines whose first space is their first or second character
ShortLines == {
    <<" ", "x">>,
    <<"a", " ", "b">> }

TextLines == GoodLines \cup BadLines \cup ShortLines

RECURSIVE Join(_, _)
Join(ls, sep) == IF Len(ls) = 0 THEN <<>>
                 ELSE IF Len(ls) = 1 THEN ls[1]
                 ELSE ls[1] \o sep \o Join(Tail(ls), sep)

\* the texts: one to MaxLines lines, joined by newlines
Texts == {Join(ls, <<"\n">>) : ls \in UNION {[1..k -> TextLines] : k \in 1..MaxLines}}

\* entries: 0s, 5.25s, 12.5s, 65.25s with a text or none
Offsets == {Dur(0, 0), Dur(5, 250000000), Dur(12, 500000000), Dur(65, 250000000)}
Entries == {SyncedLyric(d, t, 0) : d \in Offsets, t \in {<<>>, <<"l", "a", " ", "l", "a">>}}
EntrySeqs == UNION {[1..k -> Entries] : k \in 0..MaxLines}

InitCodec ==
    /\ VerifyIdle /\ SolveIdle /\ PublishIdle
    /\ \/ /\ str \in Texts
          /\ lines = <<>> /\ syncedLyrics = <<>> /\ index = 0 /\ pcParse = "start"
          /\ FormatIdle
       \/ /\ ParseIdle
          /\ lyrics \in EntrySeqs
          /\ fmtIndex = 0 /\ fmtStr = <<>> /\ pcFormat = "loop"

NextCodec ==
    \/ ParseSplit /\ UNCHANGED <<varsVerify, varsSolve, varsPublish, varsFormat>>
    \/ ParseLine /\ UNCHANGED <<varsVerify, varsSolve, varsPublish, varsFormat>>
    \/ ParseReturn /\ UNCHANGED <<varsVerify, varsSolve, varsPublish, varsFormat>>
    \/ FormatParsed /\ UNCHANGED <<varsVerify, varsSolve, varsPublish, varsParse>>
    \/ FormatLine /\ UNCHANGED <<varsVerify, varsSolve, varsPublish, varsParse>>
    \/ FormatReturn /\ UNCHANGED <<varsVerify, varsSolve, varsPublish, varsParse>>

SpecCodec == InitCodec /\ [][NextCodec]_vars

(***************************************************************************)
(* Properties of verifyNonce.                                              *)
(***************************************************************************)
\* the first position where two sequences of equal length differ, 0 if none
FirstDiff(a, b) ==
    IF \E i \in 1..Len(a) : a[i] # b[i]
    THEN CHOOSE i \in 1..Len(a) : a[i] # b[i] /\ \A k \in 1..(i - 1) : a[k] = b[k]
    ELSE 0

\* C1: on sequences of equal length verifyNonce(hash, target) is true exactly
\* when hash <= target as big-endian unsigned integers: true when all bytes
\* are equal, true when the first differing byte of hash is smaller, false
\* when it is larger.
C1_VerifyIsBigEndianLeq ==
    (vnPc = "done" /\ Len(vnResult) = Len(vnTarget)) =>
        LET d == FirstDiff(vnResult, vnTarget)
        IN  /\ vnRet <=> (BigEndian(vnResult) <= BigEndian(vnTarget))
            /\ d = 0 => vnRet
            /\ (d # 0 /\ vnResult[d] < vnTarget[d]) => vnRet
            /\ (d # 0 /\ vnResult[d] > vnTarget[d]) => ~vnRet

\* accepted on a smaller first byte although a later byte is larger
C1_Witness ==
    /\ vnPc = "done" /\ Len(vnResult) = 2 /\ Len(vnTarget) = 2
    /\ vnResult[1] < vnTarget[1] /\ vnResult[2] > vnTarget[2]
    /\ vnRet

(***************************************************************************)
(* Properties of solveChallenge.                                           *)
(***************************************************************************)
\* C2: for a target that decodes to the digest length, solveChallenge returns
\* the decimal string of a nonce n >= 0 whose digest is accepted, and n is the
\* smallest such nonce: 0, 1, 2, ... were tried in this order and every
\* m < n was rejected.
C2_SolveReturnsSmallestNonce ==
    (pcS = "done" /\ Len(target) = DigestLen) =>
        /\ nonce >= 0
        /\ solved = Itoa(nonce)
        /\ input = prefix \o Itoa(nonce)
        /\ verifyNonce(hashed, target)
        /\ BigEndian(hashed) <= BigEndian(target)
        /\ Len(tried) = nonce + 1
        /\ \A k \in 1..Len(tried) :
              /\ tried[k].nonce = k - 1
              /\ tried[k].accept <=> (k - 1 = nonce)

\* a search that returned after rejecting two nonces
C2_Witness ==
    /\ pcS = "done" /\ Len(target) = DigestLen /\ decodeErr = "nil"
    /\ nonce = 2 /\ solved = <<"2">>

TargetInvalid == decodeErr # "nil" \/ Len(target) # DigestLen

\* C3: a target that fails to decode, or decodes to another length than the
\* digest's, makes the solver fail before the search loop: no comparison is
\* made and no round of the loop runs.
C3_InvalidTargetFailsFast ==
    (pcS # "start" /\ TargetInvalid) => (pcS = "invalid" /\ tried = <<>>)

\* C10 as stated: whenever hex decoding reports an error, verifyNonce is
\* false for every nonce and solveChallenge never returns.
C10_DecodeErrorNeverReturns ==
    decodeErr # "nil" => (pcS \notin {"return", "done"} /\ \A k \in 1..Len(tried) : ~tried[k].accept)

\* C10 amended: whenever the bytes decoded from the target (those decoded
\* before an error included) are not of the digest length, the decode error
\* is ignored, verifyNonce is false for every nonce and solveChallenge never
\* returns.
C10_WrongLengthNeverReturns ==
    (pcS # "start" /\ Len(target) # DigestLen) =>
        /\ pcS = "loop"
        /\ Len(tried) = nonce
        /\ \A k \in 1..Len(tried) : tried[k].nonce = k - 1 /\ ~tried[k].accept

\* a malformed target still being searched after MaxNonce rejected nonces
C10_Witness ==
    /\ pcS = "loop" /\ decodeErr # "nil" /\ Len(target) # DigestLen
    /\ nonce > MaxNonce /\ Len(tried) = nonce

(***************************************************************************)
(* Properties of PublishSong.                                              *)
(***************************************************************************)
\* C8: every publish request follows, within its own call, a challenge
\* request that was answered and solved, and carries the token built from
\* that challenge's prefix and the nonce solved for it; no call sends two
\* publish requests, so no token is used twice, and a call whose challenge
\* request or decoding failed sends no publish request.
C8_TokenFromOwnFreshChallenge ==
    \A j \in 1..Len(log) :
        /\ log[j].kind = "publish" =>
            /\ j > 1
            /\ log[j - 1].kind = "request-challenge"
            /\ log[j - 1].call = log[j].call
            /\ log[j - 1].outcome = "ok"
            /\ LET s == solvedFor[log[j].call]
               IN  /\ s.nonce >= 0
                   /\ s.accepted
                   /\ log[j].token = Token(log[j - 1].prefix, Itoa(s.nonce))
            /\ \A k \in 1..Len(log) :
                  (k # j /\ log[k].kind = "publish") => log[k].call # log[j].call
        /\ (log[j].kind = "request-challenge" /\ log[j].outcome # "ok") =>
              \A k \in 1..Len(log) : log[k].kind = "publish" => log[k].call # log[j].call

\* two calls have each published with a token of their own challenge
C8_Witness ==
    /\ Len(log) = 4 /\ pcP = "idle" /\ call = 2
    /\ log[2].kind = "publish" /\ log[4].kind = "publish"
    /\ log[1].prefix # log[3].prefix
    /\ log[2].token # log[4].token

(***************************************************************************)
(* Properties of the codec.                                                *)
(***************************************************************************)
NewlineCount(s) == Cardinality({i \in 1..Len(s) : s[i] = "\n"})

\* C4: for every text ParseSyncedLyrics completes without aborting and
\* returns exactly K entries, K the number of lines of the text, also when
\* the first space of a line is its first or second character.
C4_ParseCompletesWithKEntries ==
    /\ pcParse # "panic"
    /\ pcParse = "done" => Len(syncedLyrics) = NewlineCount(str) + 1

\* a line of one of the four kinds that C5 names: no space, or a stamp whose
\* inside (the stamp without its first and last character) does not split on
\* ":" into two parts, or whose minutes are no integer, or whose seconds are
\* no number
UnparsableLine(line) ==
    LET i == StrIndex(line, " ")
    IN  \/ i = -1
        \/ /\ i >= 2
           /\ LET parts == Split(SubSeq(line, 2, i - 1), ":")
              IN  \/ Len(parts) # 2
                  \/ ~ParseInt(parts[1]).ok
                  \/ ~ParseFloat(parts[2]).ok

\* a line whose stamp has an inside, and which parses
ParsableLine(line) == StrIndex(line, " ") >= 2 /\ ~UnparsableLine(line)

\* C5: a line that cannot be parsed leaves the zero-valued entry at its
\* position, and the entry of every other line is what that line gives at its
\* position whatever the lines around it are; a line not yet reached has the
\* zero-valued entry.
C5_BadLineLeavesZeroOthersUntouched ==
    pcParse \in {"loop", "done"} =>
        /\ Len(syncedLyrics) = Len(lines)
        /\ \A p \in 1..Len(lines) :
            /\ (p <= index /\ UnparsableLine(lines[p])) => syncedLyrics[p] = ZeroLyric
            /\ (p <= index /\ ParsableLine(lines[p])) =>
                  /\ syncedLyrics[p] = ParseEntry(lines[p], p - 1).lyric
                  /\ syncedLyrics[p].Index = p - 1
                  /\ syncedLyrics[p].Text = SubSeq(lines[p], StrIndex(lines[p], " ") + 1, Len(lines[p]))
            /\ p > index => syncedLyrics[p] = ZeroLyric

\* a line without a space before a line that parsed
C5_Witness ==
    /\ pcParse = "done" /\ Len(lines) = 2
    /\ lines[1] = <<"n", "o", "s", "p", "a", "c", "e", "h", "e", "r", "e">>
    /\ ParsableLine(lines[2])
    /\ syncedLyrics[1] = ZeroLyric
    /\ syncedLyrics[2].Index = 1 /\ syncedLyrics[2].Text # <<>>

\* the stamp "[M:SS.ff]" C6 gives an offset: the whole minutes, and the
\* seconds left after them with two digits before and after the point
ClaimedStamp(d) ==
    LET h == FHundredths(DurSeconds(d))
        left == h - 6000 * (d.sec \div 60)
    IN  <<"[">> \o Itoa(d.sec \div 60) \o <<":">> \o PadZero(Itoa(left \div 100), 2)
            \o <<".">> \o PadZero(Itoa(left % 100), 2) \o <<"]">>

\* C6: FormatSyncedLyrics gives "[M:SS.ff] text" for every entry, M the whole
\* minutes and SS.ff the seconds left after the whole minutes, below 60, with
\* two digits before the point and two after; the lines are joined by
\* newlines.
C6_FormatGivesMinutesAndSecondsLeft ==
    pcFormat = "done" =>
        fmtStr = Join([k \in 1..Len(lyrics) |->
                          ClaimedStamp(lyrics[k].At) \o <<" ">> \o lyrics[k].Text],
                      <<"\n">>)

AllDigits(s) == s # <<>> /\ \A i \in 1..Len(s) : IsDigit(s[i])

\* digits, or digits "." digits
IsDecimal(s) ==
    LET dot == StrIndex(s, ".")
    IN  IF dot = -1 THEN AllDigits(s)
        ELSE AllDigits(SubSeq(s, 1, dot)) /\ AllDigits(SubSeq(s, dot + 2, Len(s)))

\* the minutes and the seconds of a line "[m:s] text"
StampMinutes(line) == SubSeq(line, 2, StrIndex(line, ":"))
StampSeconds(line) == SubSeq(line, StrIndex(line, ":") + 2, StrIndex(line, " ") - 1)

\* a line "[m:s] text", m an integer and s a decimal number
WellFormedLine(line) ==
    LET i == StrIndex(line, " ")
        c == StrIndex(line, ":")
    IN  /\ i >= 5 /\ c >= 2 /\ c < i - 2
        /\ line[1] = "[" /\ line[i] = "]"
        /\ AllDigits(StampMinutes(line))
        /\ IsDecimal(StampSeconds(line))

\* m minutes and s seconds, to the nanosecond
ExactOffset(m, s) ==
    LET dot == StrIndex(s, ".")
        whole == IF dot = -1 THEN s ELSE SubSeq(s, 1, dot)
        frac == IF dot = -1 THEN <<>> ELSE SubSeq(s, dot + 2, Len(s))
    IN  Dur(60 * DigitsVal(m) + DigitsVal(whole), DigitsVal(frac) * Pow10(9 - Len(frac)))

\* C7: a well-formed line "[m:s] text" at position p gives at position p the
\* entry with offset m*60 seconds + s seconds, the text from the first space
\* on, and index p.
C7_WellFormedLineGivesExactOffset ==
    pcParse \in {"loop", "done"} =>
        \A p \in 1..index :
            WellFormedLine(lines[p]) =>
                syncedLyrics[p] =
                    SyncedLyric(ExactOffset(StampMinutes(lines[p]), StampSeconds(lines[p])),
                                SubSeq(lines[p], StrIndex(lines[p], " ") + 1, Len(lines[p])),
                                p - 1)

\* a line "[M:SS.ff] text": minutes without a leading zero, seconds below 60
\* with two digits before and two after the point
StampedLine(line) ==
    /\ WellFormedLine(line)
    /\ LET m == StampMinutes(line)
           sec == StampSeconds(line)
       IN  /\ Len(m) = 1 \/ m[1] # "0"
           /\ Len(sec) = 5 /\ sec[3] = "."
           /\ DigitsVal(SubSeq(sec, 1, 2)) < 60

\* a line with the space after its stamp doubled
SpaceDoubled(line) ==
    LET i == StrIndex(line, " ")
    IN  SubSeq(line, 1, i) \o <<" ">> \o SubSeq(line, i + 1, Len(line))

\* C9: for a text of lines "[M:SS.ff] text" only, formatting what
\* ParseSyncedLyrics returns gives the text back with the space after each
\* stamp doubled and nothing else changed.
C9_RoundTripOnlyDoublesSpace ==
    (pcParse = "done" /\ pcFormat = "done" /\ \A p \in 1..Len(lines) : StampedLine(lines[p])) =>
        fmtStr = Join([p \in 1..Len(lines) |-> SpaceDoubled(lines[p])], <<"\n">>)

====
